---------------------------- MODULE Spec2Model ----------------------------
(***************************************************************************)
(* PERDQN (pl_bolts/models/rl/per_dqn_model.py): DQN with prioritized      *)
(* experience replay.  The model covers prepare_data, training_step and    *)
(* loss, together with the collaborators they call: the replay buffer      *)
(* (PERBuffer), the minibatch sampler (PrioRLDataset), the agent's          *)
(* exploration schedule, the experience source and the training driver.    *)
(*                                                                         *)
(* Numbers.  Every float of the program is modelled as an extended         *)
(* rational: a record [k, n, d] with k = "fin" (the value n/d, d > 0, in   *)
(* lowest terms), k = "inf" (n = 1 for +inf, n = -1 for -inf) or k = "nan".*)
(* Arithmetic on them follows IEEE-754 for the non-finite cases and is     *)
(* exact for the finite ones (sums and comparisons go through the least    *)
(* common denominator, products cancel common factors first, so that the   *)
(* intermediate integers stay small).                                      *)
(***************************************************************************)
EXTENDS Integers, Sequences, FiniteSets, TLC

(***************************************************************************)
(* Extended rationals                                                      *)
(***************************************************************************)
Abs(x) == IF x < 0 THEN -x ELSE x

RECURSIVE Gcd(_, _)
Gcd(a, b) == IF b = 0 THEN a ELSE Gcd(b, a % b)

\* The finite value n/d (d # 0), in lowest terms with a positive denominator.
Rat(n, d) ==
    LET g == Gcd(Abs(n), Abs(d))
        s == IF d < 0 THEN -1 ELSE 1
    IN  [k |-> "fin", n |-> (s * n) \div g, d |-> (s * d) \div g]

Lcm(a, b) == (a \div Gcd(a, b)) * b

FInt(i) == [k |-> "fin", n |-> i, d |-> 1]
FZero == FInt(0)
FOne == FInt(1)
FNaN == [k |-> "nan", n |-> 0, d |-> 1]
FInf == [k |-> "inf", n |-> 1, d |-> 1]

IsFinite(x) == x.k = "fin"
IsNaN(x) == x.k = "nan"

\* The sign of x (-1, 0, 1); 0 for NaN.
Sgn(x) == IF x.k = "nan" THEN 0
          ELSE IF x.n > 0 THEN 1 ELSE IF x.n < 0 THEN -1 ELSE 0

FNeg(x) == IF x.k = "nan" THEN FNaN ELSE [x EXCEPT !.n = -x.n]

FAdd(x, y) ==
    IF x.k = "nan" \/ y.k = "nan" THEN FNaN
    ELSE IF x.k = "inf" /\ y.k = "inf" THEN (IF x.n = y.n THEN x ELSE FNaN)
    ELSE IF x.k = "inf" THEN x
    ELSE IF y.k = "inf" THEN y
    ELSE LET l == Lcm(x.d, y.d)
         IN  Rat(x.n * (l \div x.d) + y.n * (l \div y.d), l)

FSub(x, y) == FAdd(x, FNeg(y))

FMul(x, y) ==
    IF x.k = "nan" \/ y.k = "nan" THEN FNaN
    ELSE IF x.k = "inf" \/ y.k = "inf"
         THEN (IF Sgn(x) * Sgn(y) = 0 THEN FNaN
               ELSE [k |-> "inf", n |-> Sgn(x) * Sgn(y), d |-> 1])
    ELSE LET g1 == Gcd(Abs(x.n), y.d)
             g2 == Gcd(Abs(y.n), x.d)
         IN  Rat((x.n \div g1) * (y.n \div g2), (x.d \div g2) * (y.d \div g1))

\* x / y for a finite non-zero y.
FDiv(x, y) ==
    IF x.k = "nan" THEN FNaN
    ELSE IF x.k = "inf" THEN [k |-> "inf", n |-> Sgn(x) * Sgn(y), d |-> 1]
    ELSE FMul(x, Rat(y.d, y.n))

\* x < y; every comparison with NaN is false.
FLt(x, y) ==
    IF x.k = "nan" \/ y.k = "nan" THEN FALSE
    ELSE IF x.k = "inf" THEN x.n = -1 /\ ~(y.k = "inf" /\ y.n = -1)
    ELSE IF y.k = "inf" THEN y.n = 1
    ELSE LET l == Lcm(x.d, y.d)
         IN  x.n * (l \div x.d) < y.n * (l \div y.d)

FGt(x, y) == FLt(y, x)
FLe(x, y) == FLt(x, y) \/ (x.k # "nan" /\ x = y)

\* torch.max / numpy.max of two values: NaN propagates.
FMax(x, y) ==
    IF x.k = "nan" \/ y.k = "nan" THEN FNaN
    ELSE IF FLt(x, y) THEN y ELSE x

\* sum(s), from 0.  The additions are exact, hence associative: the sum is
\* taken over the two halves of s, which keeps the evaluation shallow.
RECURSIVE FSum(_)
FSum(s) ==
    IF s = <<>> THEN FZero
    ELSE IF Len(s) = 1 THEN FAdd(FZero, s[1])
    ELSE LET h == Len(s) \div 2
         IN  FAdd(FSum(SubSeq(s, 1, h)), FSum(SubSeq(s, h + 1, Len(s))))

RECURSIVE FMaxSeq(_)
FMaxSeq(s) == IF Len(s) = 1 THEN s[1] ELSE FMax(FMaxSeq(SubSeq(s, 1, Len(s) - 1)), s[Len(s)])


(***************************************************************************)
(* Bounds of the model                                                     *)
(***************************************************************************)
\* Training steps the driver runs before it stops.
MaxSteps == 3
\* sync_rate is drawn from 1..MaxSyncRate when the model is constructed.
MaxSyncRate == 2
\* Training steps of the fixed prefix of a long run.
HistorySteps == 100

(***************************************************************************)
(* Hyper-parameters (arguments of the constructor) and program constants   *)
(***************************************************************************)
replay_size == 3
warm_start_size == 2
batch_size == 2
gamma == Rat(99, 100)
eps_start == FOne
eps_end == Rat(1, 50)
eps_last_frame == 2
\* The exponent of the importance weights.
beta == 1
\* sum(self.reward_list[-100:]) / 100
AvgWindow == 100
\* losses_v + 1e-5
PrioEpsDen == 100000
PrioEps == Rat(1, PrioEpsDen)
\* The buffer's own floor, added by update_priorities.
epsilon_floor == Rat(1, PrioEpsDen)

(***************************************************************************)
(* Collaborators: networks, environment                                    *)
(***************************************************************************)
Actions == {0, 1}

\* A parameter set of the Q-network.  The network is the table
\* Q(s, a) = theta[2 * (s % 2) + a + 1].  ThetaA and ThetaB are the two
\* networks' initial parameters.
ThetaA == <<FInt(1), FInt(2), FZero, FInt(-1)>>
ThetaB == <<FZero, FInt(1), FInt(3), FInt(2)>>
\* Diverged parameters: the outputs for odd states are not finite.
ThetaDiv == <<FInt(1), FZero, FInf, FNaN>>
\* The parameters an optimizer step can leave in the online network.
ParamSet == {ThetaA, ThetaDiv}

\* self.net(states) / self.target_net(next_states), one row.
forward(theta, s) == [a \in Actions |-> theta[2 * (s % 2) + a + 1]]

\* What one source.step() can return besides the states: the action taken,
\* the reward and the done flag.
EnvOutcomes ==
    { [action |-> 0, reward |-> FInt(1), done |-> FALSE],
      [action |-> 1, reward |-> FInt(2), done |-> TRUE] }

\* The Transition the experience source builds on its n-th step (n from 0):
\* the observation is the step's number, so every transition is distinct.
Experience(n, out) ==
    [state |-> n, action |-> out.action, reward |-> out.reward,
     done |-> out.done, next_state |-> n + 1]

(***************************************************************************)
(* ExplorationSchedule (Agent.update_epsilon)                              *)
(***************************************************************************)
\* The agent's schedule as the constructor sets it.
AgentSchedule ==
    [eps_start |-> eps_start, eps_end |-> eps_end, eps_last_frame |-> eps_last_frame]

\* The straight line from eps_start at step 0 to eps_end at eps_last_frame.
EpsilonLine(sched, step) ==
    FSub(sched.eps_start,
         FDiv(FMul(FInt(step), FSub(sched.eps_start, sched.eps_end)),
              FInt(sched.eps_last_frame)))

\* Faulty variant: the line is not floored at eps_end.
UpdateEpsilonNoFloor(sched, step) == EpsilonLine(sched, step)

\* agent.update_epsilon(step): the value self.agent.epsilon takes.
UpdateEpsilon(sched, step) == FMax(sched.eps_end, EpsilonLine(sched, step))

\* epsilon(step) under the constructor's hyper-parameters.
Epsilon(step) == UpdateEpsilon(AgentSchedule, step)

(***************************************************************************)
(* PriorityStore (PERBuffer)                                               *)
(***************************************************************************)
\* PERBuffer(capacity): no entry, the cursor on slot 0.  n_append and
\* n_update count the calls of append and of update_priorities.
NewBuffer(capacity) ==
    [capacity |-> capacity, slots |-> <<>>, pos |-> 0, n_append |-> 0, n_update |-> 0]

Priorities(buf) == [i \in 1..Len(buf.slots) |-> buf.slots[i].priority]

\* The priority of a fresh entry: the maximal one present, 1 in an empty store.
MaxPriority(buf) == IF buf.slots = <<>> THEN FOne ELSE FMaxSeq(Priorities(buf))

\* buffer.append(exp): next free slot, or the least recently inserted one.
BufferAppend(buf, exp) ==
    LET entry == [transition |-> exp, priority |-> MaxPriority(buf)]
    IN  [buf EXCEPT
           !.slots = IF Len(buf.slots) < buf.capacity
                     THEN Append(buf.slots, entry)
                     ELSE [buf.slots EXCEPT ![buf.pos + 1] = entry],
           !.pos = (buf.pos + 1) % buf.capacity,
           !.n_append = buf.n_append + 1]

\* The slots after the first k pairs of (indices, priorities) are written.
RECURSIVE WritePriorities(_, _, _, _)
WritePriorities(slots, indices, prios, k) ==
    IF k = 0 THEN slots
    ELSE LET before == WritePriorities(slots, indices, prios, k - 1)
         IN  [before EXCEPT ![indices[k] + 1].priority = FAdd(prios[k], epsilon_floor)]

\* buffer.update_priorities(indices, priorities); the lengths are equal.
UpdatePriorities(buf, indices, prios) ==
    [buf EXCEPT !.slots = WritePriorities(buf.slots, indices, prios, Len(indices)),
                !.n_update = buf.n_update + 1]

(***************************************************************************)
(* PrioritizedSampler (PrioRLDataset over PERBuffer.sample)                *)
(***************************************************************************)
\* Proportional sampling needs a non-empty store whose priorities are
\* finite and positive.
CanSample(buf) ==
    /\ Len(buf.slots) > 0
    /\ \A i \in 1..Len(buf.slots) :
          IsFinite(buf.slots[i].priority) /\ FGt(buf.slots[i].priority, FZero)

\* The index sequences sample(batch_size) can draw: with replacement, every
\* occupied slot has a positive probability.
SampleIndices(buf, n) == [1..n -> 0..(Len(buf.slots) - 1)]

RECURSIVE FPow(_, _)
FPow(x, e) == IF e = 0 THEN FOne ELSE FMul(x, FPow(x, e - 1))

\* (N * P(i)) ^ (-beta), P(i) = priority / total priority.
RawWeight(buf, idx) ==
    LET total == FSum(Priorities(buf))
        prob == FDiv(buf.slots[idx + 1].priority, total)
    IN  FDiv(FOne, FPow(FMul(FInt(Len(buf.slots)), prob), beta))

\* Faulty variant: the weights are not normalised by the batch maximum.
SampleWeightsNotNormalised(buf, indices) ==
    [i \in 1..Len(indices) |-> RawWeight(buf, indices[i])]

\* The importance weights of a batch, normalised by the batch maximum.
SampleWeights(buf, indices) ==
    LET raw == [i \in 1..Len(indices) |-> RawWeight(buf, indices[i])]
    IN  [i \in 1..Len(indices) |-> FDiv(raw[i], FMaxSeq(raw))]

\* One minibatch: (samples, indices, weights).
Sample(buf, indices) ==
    [samples |-> [i \in 1..Len(indices) |-> buf.slots[indices[i] + 1].transition],
     indices |-> indices,
     weights |-> SampleWeights(buf, indices)]

\* The minibatch is an input of training_step.  The weights it can carry
\* are drawn from WeightValues: the sampler normalises by the batch maximum,
\* so they lie in (0, 1], one of them is 1, and a slot drawn twice carries
\* the same weight twice.
WeightValues == {FOne, Rat(1, 2)}

BatchWeights(indices) ==
    { w \in [1..Len(indices) -> WeightValues] :
         /\ \E i \in 1..Len(indices) : w[i] = FOne
         /\ \A i, j \in 1..Len(indices) : indices[i] = indices[j] => w[i] = w[j] }

\* The minibatches the dataset can hand to a training_step: drawn from the
\* store as it is when the step starts.
Minibatches(buf, n) ==
    { [samples |-> [i \in 1..n |-> buf.slots[indices[i] + 1].transition],
       indices |-> indices,
       weights |-> w] : <<indices, w>> \in
           { iw \in SampleIndices(buf, n) \X [1..n -> WeightValues] :
                iw[2] \in BatchWeights(iw[1]) } }

(***************************************************************************)
(* PERDQN.loss                                                             *)
(***************************************************************************)
\* state_action_vals: self.net(states).gather(1, actions)
StateActionVal(theta, t) == forward(theta, t.state)[t.action]

\* self.target_net(next_states).max(1)[0]
MaxNextVal(theta, t) ==
    LET q == forward(theta, t.next_state)
    IN  FMax(q[0], q[1])

\* Faulty variant: terminal rows are masked by a product with (1 - done).
NextStateValMaskedByProduct(theta, t) ==
    FMul(MaxNextVal(theta, t), IF t.done THEN FZero ELSE FOne)

\* next_s_vals[dones] = 0.0
NextStateVal(theta, t) == IF t.done THEN FZero ELSE MaxNextVal(theta, t)

\* exp_sa_vals = next_s_vals.detach() * self.gamma + rewards
ExpectedVal(theta, t) == FAdd(FMul(NextStateVal(theta, t), gamma), t.reward)

\* (state_action_vals - exp_sa_vals) ** 2
SquaredError(thetaNet, thetaTarget, t) ==
    LET diff == FSub(StateActionVal(thetaNet, t), ExpectedVal(thetaTarget, t))
    IN  FMul(diff, diff)

\* losses_v = batch_weights * loss
LossesV(samples, weights, thetaNet, thetaTarget) ==
    [i \in 1..Len(samples) |-> FMul(weights[i], SquaredError(thetaNet, thetaTarget, samples[i]))]

\* Faulty variant: the priorities are returned in the reverse order of the rows.
LossPrioritiesReversed(losses_v) ==
    [i \in 1..Len(losses_v) |-> FAdd(losses_v[Len(losses_v) + 1 - i], PrioEps)]

\* The priorities loss returns: (losses_v + 1e-5)
LossPriorities(losses_v) == [i \in 1..Len(losses_v) |-> FAdd(losses_v[i], PrioEps)]

\* loss(batch, batch_weights) = (losses_v.mean(), losses_v + 1e-5)
Loss(samples, weights, thetaNet, thetaTarget) ==
    LET losses_v == LossesV(samples, weights, thetaNet, thetaTarget)
    IN  [loss |-> FDiv(FSum(losses_v), FInt(Len(losses_v))),
         priorities |-> LossPriorities(losses_v)]

(***************************************************************************)
(* State                                                                   *)
(***************************************************************************)
VARIABLES
    pc,                  \* "prepare": constructed, prepare_data not run yet;
                         \* "step": the driver is about to call training_step;
                         \* "optimize": training_step returned, the driver
                         \*   applies the optimizer and counts the step
    sync_rate,           \* hyper-parameter, fixed at construction
    global_step,         \* the trainer's step counter
    net, target_net,     \* parameters of the online and the target network
    buffer,              \* self.buffer
    dataset,             \* self.dataset
    env_steps,           \* calls of self.source.step() so far
    agent_schedule,      \* self.agent: eps_start, eps_end, eps_last_frame
    agent_epsilon,       \* self.agent.epsilon
    yielded,             \* the minibatch the dataset yielded, until consumed
    episode_reward, episode_steps,
    total_reward, reward_list, avg_reward, episode_count, total_episode_steps,
    loss_calls,          \* calls of self.loss so far
    trace,               \* (reward, done) of every training step so far
    last,                \* what the training_step that has just returned
                         \*   received and computed
    result               \* what that training_step returned

vars == <<pc, sync_rate, global_step, net, target_net, buffer, dataset, env_steps,
          agent_schedule, agent_epsilon, yielded, episode_reward, episode_steps, total_reward, reward_list,
          avg_reward, episode_count, total_episode_steps, loss_calls, trace, last,
          result>>

\* No buffer / no dataset / no minibatch before prepare_data.
NoBatch == [samples |-> <<>>, indices |-> <<>>, weights |-> <<>>]
NoBuffer == NewBuffer(0)
NoDataset == [built |-> FALSE, batch_size |-> 0, built_on |-> 0]

NoCall ==
    [called |-> FALSE, global_step |-> 0, samples |-> <<>>, indices |-> <<>>,
     weights |-> <<>>, exp |-> Experience(0, [action |-> 0, reward |-> FZero, done |-> FALSE]),
     reward |-> FZero, done |-> FALSE, epsilon_used |-> FZero,
     q_pred |-> <<>>, q_target |-> <<>>,
     loss |-> FZero, priorities |-> <<>>, target_used |-> <<>>,
     target_before |-> <<>>,
     before |-> [episode_reward |-> FZero, episode_steps |-> 0, total_reward |-> FZero,
                 reward_list |-> <<>>, avg_reward |-> FZero, episode_count |-> 0,
                 total_episode_steps |-> 0]]

NoResult ==
    [loss |-> FZero,
     log |-> [total_reward |-> FZero, avg_reward |-> FZero, train_loss |-> FZero,
              episode_steps |-> 0],
     progress_bar |-> [steps |-> 0, avg_reward |-> FZero, total_reward |-> FZero,
                       episodes |-> 0, episode_steps |-> 0, epsilon |-> FZero]]

(***************************************************************************)
(* PERDQN.prepare_data                                                     *)
(***************************************************************************)
\* DQN.populate(warm_start): warm_start steps of the source, each appended;
\* outs[i] is what the i-th step returns, n0 the source's step count before.
RECURSIVE Populate(_, _, _, _)
Populate(buf, n0, outs, k) ==
    IF k = 0 THEN buf
    ELSE BufferAppend(Populate(buf, n0, outs, k - 1), Experience(n0 + k - 1, outs[k]))

\* Faulty variant: the buffer is created with the warm-up size as its capacity.
PrepareBufferWrongCapacity(n0, outs) ==
    Populate(NewBuffer(warm_start_size), n0, outs, warm_start_size)

\* Faulty variant: the buffer is created and not populated.
PrepareBufferNoWarmup(n0, outs) == NewBuffer(replay_size)

\* self.buffer = PERBuffer(self.replay_size); self.populate(self.warm_start_size)
PrepareBuffer(n0, outs) == Populate(NewBuffer(replay_size), n0, outs, warm_start_size)

\* PrioRLDataset(self.buffer, self.batch_size); built_on is the occupancy of
\* the buffer it is handed.
NewDataset(buf, n) == [built |-> TRUE, batch_size |-> n, built_on |-> Len(buf.slots)]

PrepareData ==
    /\ pc = "prepare"
    /\ \E outs \in [1..warm_start_size -> EnvOutcomes] :
          /\ buffer' = PrepareBuffer(env_steps, outs)
          /\ env_steps' = env_steps + warm_start_size
    /\ dataset' = NewDataset(buffer', batch_size)
    /\ pc' = "step"
    /\ UNCHANGED <<sync_rate, global_step, net, target_net, agent_schedule,
                   agent_epsilon, yielded, episode_reward, episode_steps, total_reward, reward_list,
                   avg_reward, episode_count, total_episode_steps, loss_calls,
                   trace, last, result>>

(***************************************************************************)
(* PERDQN.training_step                                                    *)
(***************************************************************************)
\* Faulty variant: the transition that ends an episode is not stored.
StoreTransitionUnlessDone(buf, exp) == IF exp.done THEN buf ELSE BufferAppend(buf, exp)

\* Faulty variant: the source is stepped before the schedule is updated.
EpsilonAtSourceStepStale(before, updated) == before

\* self.agent.epsilon when self.source.step() chooses the action: the value
\* update_epsilon has just set, not the one the previous step left.
EpsilonAtSourceStep(before, updated) == updated

\* self.buffer.append(exp)
StoreTransition(buf, exp) == BufferAppend(buf, exp)

\* Faulty variant: the rows are read again from the buffer, at the batch's
\* indices, after the step's append.
LossSamplesReadAfterAppend(batch, buf) ==
    [i \in 1..Len(batch.indices) |-> buf.slots[batch.indices[i] + 1].transition]

\* self.loss(samples, weights): the rows are those of the input minibatch,
\* whatever buf, the buffer after the step's append, holds.
LossSamples(batch, buf) == batch.samples

\* self.buffer.update_priorities(indices, batch_weights)
WriteBack(buf, indices, batch_weights) == UpdatePriorities(buf, indices, batch_weights)

\* self.reward_list[-n:]
LastN(s, n) == SubSeq(s, IF Len(s) > n THEN Len(s) - n + 1 ELSE 1, Len(s))

\* Faulty variant: the average is taken over the whole history.
AvgRewardNoWindow(rewards) == FDiv(FSum(rewards), FInt(AvgWindow))

\* sum(self.reward_list[-100:]) / 100
AvgReward(rewards) == FDiv(FSum(LastN(rewards, AvgWindow)), FInt(AvgWindow))

\* The episode fields of self.
Episode ==
    [episode_reward |-> episode_reward, episode_steps |-> episode_steps,
     total_reward |-> total_reward, reward_list |-> reward_list,
     avg_reward |-> avg_reward, episode_count |-> episode_count,
     total_episode_steps |-> total_episode_steps]

\* Faulty variant: the totals of the last episode follow the running episode.
AccumulateAndPublish(ep, reward) ==
    [ep EXCEPT !.episode_reward = FAdd(ep.episode_reward, reward),
               !.episode_steps = ep.episode_steps + 1,
               !.total_reward = FAdd(ep.episode_reward, reward),
               !.total_episode_steps = ep.episode_steps + 1]

\* self.episode_reward += reward; self.episode_steps += 1
Accumulate(ep, reward) ==
    [ep EXCEPT !.episode_reward = FAdd(ep.episode_reward, reward),
               !.episode_steps = ep.episode_steps + 1]

\* Faulty variant: the step counter of the current episode is not reset.
FinishEpisodeKeepSteps(ep) ==
    [ep EXCEPT !.total_reward = ep.episode_reward,
               !.reward_list = Append(ep.reward_list, ep.episode_reward),
               !.avg_reward = AvgReward(Append(ep.reward_list, ep.episode_reward)),
               !.episode_count = ep.episode_count + 1,
               !.episode_reward = FZero,
               !.total_episode_steps = ep.episode_steps]

\* Faulty variant: the history is restarted with every finished episode.
FinishEpisodeRestartHistory(ep) ==
    [ep EXCEPT !.total_reward = ep.episode_reward,
               !.reward_list = <<ep.episode_reward>>,
               !.avg_reward = AvgReward(<<ep.episode_reward>>),
               !.episode_count = ep.episode_count + 1,
               !.episode_reward = FZero,
               !.total_episode_steps = ep.episode_steps,
               !.episode_steps = 0]

\* The body of "if done:".
FinishEpisode(ep) ==
    [ep EXCEPT !.total_reward = ep.episode_reward,
               !.reward_list = Append(ep.reward_list, ep.episode_reward),
               !.avg_reward = AvgReward(Append(ep.reward_list, ep.episode_reward)),
               !.episode_count = ep.episode_count + 1,
               !.episode_reward = FZero,
               !.total_episode_steps = ep.episode_steps,
               !.episode_steps = 0]

\* Faulty variant: the episode is closed before the step is accumulated.
EpisodeStepCloseFirst(ep, reward, done) ==
    IF done THEN Accumulate(FinishEpisode(ep), reward) ELSE Accumulate(ep, reward)

\* The episode fields after a training_step whose transition is (reward, done).
EpisodeStep(ep, reward, done) ==
    IF done THEN FinishEpisode(Accumulate(ep, reward)) ELSE Accumulate(ep, reward)

\* Faulty variant: the synchronisation is one step late.
SyncDueOffByOne(step, rate) == step % rate = 1 % rate /\ step > 0

\* if self.global_step % self.sync_rate == 0
SyncDue(step, rate) == step % rate = 0

\* The target parameters after the step:
\* self.target_net.load_state_dict(self.net.state_dict()) when due.
SyncTarget(step, rate, online, target) == IF SyncDue(step, rate) THEN online ELSE target

\* Faulty variant: the target is synchronised before the loss is computed.
TargetForLossAfterSync(step, rate, online, target) ==
    SyncTarget(step, rate, online, target)

\* The target parameters self.loss reads: self.loss is called before the
\* synchronisation, so they are the ones the step started with.
TargetForLoss(step, rate, online, target) == target

\* The OrderedDict training_step returns.  Reshaping the loss for dp/ddp2
\* (loss.unsqueeze(0)) does not change its value and is not modelled.
StepResult(loss, ep, step, eps) ==
    [loss |-> loss,
     log |-> [total_reward |-> ep.total_reward, avg_reward |-> ep.avg_reward,
              train_loss |-> loss, episode_steps |-> ep.total_episode_steps],
     progress_bar |-> [steps |-> step, avg_reward |-> ep.avg_reward,
                       total_reward |-> ep.total_reward, episodes |-> ep.episode_count,
                       episode_steps |-> ep.episode_steps, epsilon |-> eps]]

\* One call of training_step on global steps lo .. hi - 1, with the
\* minibatch drawn from batches and the source's step from outs.
StepWith(lo, hi, batches, outs) ==
    /\ pc = "step"
    /\ lo <= global_step /\ global_step < hi
    /\ \E batch \in batches, out \in outs :
          \E eps \in {UpdateEpsilon(agent_schedule, global_step)},
             exp \in {Experience(env_steps, out)},
             ep \in {EpisodeStep(Episode, out.reward, out.done)} :
          \E appended \in {StoreTransition(buffer, exp)} :
          \E samples \in {LossSamples(batch, appended)} :
          \E tgt \in {TargetForLoss(global_step, sync_rate, net, target_net)} :
          \E l \in {Loss(samples, batch.weights, net, tgt)} :
              /\ yielded' = batch
              /\ agent_epsilon' = eps
              /\ env_steps' = env_steps + 1
              /\ buffer' = WriteBack(appended, batch.indices, l.priorities)
              /\ loss_calls' = loss_calls + 1
              /\ episode_reward' = ep.episode_reward
              /\ episode_steps' = ep.episode_steps
              /\ total_reward' = ep.total_reward
              /\ reward_list' = ep.reward_list
              /\ avg_reward' = ep.avg_reward
              /\ episode_count' = ep.episode_count
              /\ total_episode_steps' = ep.total_episode_steps
              /\ target_net' = SyncTarget(global_step, sync_rate, net, target_net)
              /\ result' = StepResult(l.loss, ep, global_step, eps)
              /\ trace' = Append(trace, [reward |-> out.reward, done |-> out.done])
              /\ last' = [called |-> TRUE, global_step |-> global_step,
                          samples |-> batch.samples, indices |-> batch.indices,
                          weights |-> batch.weights, exp |-> exp,
                          reward |-> out.reward, done |-> out.done,
                          epsilon_used |-> EpsilonAtSourceStep(agent_epsilon, eps),
                          q_pred |-> [i \in 1..Len(samples) |->
                                         StateActionVal(net, samples[i])],
                          q_target |-> [i \in 1..Len(samples) |->
                                           ExpectedVal(tgt, samples[i])],
                          loss |-> l.loss, priorities |-> l.priorities,
                          target_used |-> tgt, target_before |-> target_net,
                          before |-> Episode]
    /\ pc' = "optimize"
    /\ UNCHANGED <<sync_rate, global_step, net, dataset, agent_schedule>>

TrainingStep ==
    StepWith(0, MaxSteps, Minibatches(buffer, dataset.batch_size), EnvOutcomes)

(***************************************************************************)
(* The training driver                                                     *)
(***************************************************************************)
\* After training_step the trainer applies the optimizer to the online
\* network and advances its step counter.  The minibatch, the values of
\* the call and the record it returned are consumed: they do not outlive
\* the step.
OptimizeWith(lo, hi, params) ==
    /\ pc = "optimize"
    /\ lo <= global_step /\ global_step < hi
    /\ net' \in params
    /\ global_step' = global_step + 1
    /\ pc' = "step"
    /\ yielded' = NoBatch
    /\ last' = NoCall
    /\ result' = NoResult
    /\ UNCHANGED <<sync_rate, target_net, buffer, dataset, env_steps, agent_schedule,
                   agent_epsilon,
                   episode_reward, episode_steps, total_reward, reward_list,
                   avg_reward, episode_count, total_episode_steps, loss_calls,
                   trace>>

OptimizerStep == OptimizeWith(0, MaxSteps, ParamSet)

(***************************************************************************)
(* Specification                                                           *)
(***************************************************************************)
\* The state after PERDQN(...) is constructed.
Init ==
    /\ pc = "prepare"
    /\ sync_rate \in 1..MaxSyncRate
    /\ global_step = 0
    /\ net = ThetaA
    /\ target_net = ThetaB
    /\ buffer = NoBuffer
    /\ dataset = NoDataset
    /\ env_steps = 0
    /\ agent_schedule = AgentSchedule
    /\ agent_epsilon = eps_start
    /\ yielded = NoBatch
    /\ episode_reward = FZero
    /\ episode_steps = 0
    /\ total_reward = FZero
    /\ reward_list = <<>>
    /\ avg_reward = FZero
    /\ episode_count = 0
    /\ total_episode_steps = 0
    /\ loss_calls = 0
    /\ trace = <<>>
    /\ last = NoCall
    /\ result = NoResult

Next == PrepareData \/ TrainingStep \/ OptimizerStep

Spec == Init /\ [][Next]_vars

(***************************************************************************)
(* A long run.  The first HistorySteps training steps are one fixed run of *)
(* the program (every step draws slot 0 with weights 1, every transition   *)
(* but the first ends an episode, and the optimizer leaves the parameters  *)
(* as they are); the MaxSteps steps after them are arbitrary.  This brings *)
(* the reward history to the length of the averaging window and beyond.    *)
(***************************************************************************)
FixedBatch(buf, n) ==
    [samples |-> [i \in 1..n |-> buf.slots[1].transition],
     indices |-> [i \in 1..n |-> 0],
     weights |-> [i \in 1..n |-> FOne]]

\* The first step of the prefix does not end its episode, every later one does.
FixedOutcome(step) ==
    IF step = 0 THEN [action |-> 0, reward |-> FInt(1), done |-> FALSE]
    ELSE [action |-> 1, reward |-> FInt(2), done |-> TRUE]

HistoryStep ==
    StepWith(0, HistorySteps, {FixedBatch(buffer, dataset.batch_size)},
             {FixedOutcome(global_step)})

HistoryOptimizerStep == OptimizeWith(0, HistorySteps, {net})

LateTrainingStep ==
    StepWith(HistorySteps, HistorySteps + MaxSteps,
             Minibatches(buffer, dataset.batch_size), EnvOutcomes)

LateOptimizerStep == OptimizeWith(HistorySteps, HistorySteps + MaxSteps, ParamSet)

NextLong ==
    \/ PrepareData
    \/ HistoryStep
    \/ HistoryOptimizerStep
    \/ LateTrainingStep
    \/ LateOptimizerStep

SpecLong == Init /\ [][NextLong]_vars

(***************************************************************************)
(* The exploration schedule on its own: an agent with any schedule of      *)
(* Schedules is updated with the global step, which the trainer counts up  *)
(* between the updates.                                                    *)
(***************************************************************************)
\* update_epsilon is applied for the steps 0 .. MaxFrame - 1.
MaxFrame == 6
\* eps_last_frame is drawn from 1 .. MaxLastFrame.
MaxLastFrame == 3

EpsValues == {FZero, Rat(1, 50), Rat(1, 2), FOne}

\* eps_start >= eps_end, eps_last_frame > 0.
Schedules ==
    { [eps_start |-> s, eps_end |-> e, eps_last_frame |-> n] :
         <<s, e, n>> \in { t \in EpsValues \X EpsValues \X (1..MaxLastFrame) :
                              FLe(t[2], t[1]) } }

InitSchedule ==
    /\ pc = "schedule"
    /\ sync_rate = 1
    /\ global_step = 0
    /\ net = ThetaA
    /\ target_net = ThetaB
    /\ buffer = NoBuffer
    /\ dataset = NoDataset
    /\ env_steps = 0
    /\ agent_schedule \in Schedules
    /\ agent_epsilon = agent_schedule.eps_start
    /\ yielded = NoBatch
    /\ episode_reward = FZero
    /\ episode_steps = 0
    /\ total_reward = FZero
    /\ reward_list = <<>>
    /\ avg_reward = FZero
    /\ episode_count = 0
    /\ total_episode_steps = 0
    /\ loss_calls = 0
    /\ trace = <<>>
    /\ last = NoCall
    /\ result = NoResult

\* self.agent.update_epsilon(self.global_step); the step counter is left
\* as it is.
UpdateEpsilonStep ==
    /\ pc = "schedule"
    /\ global_step < MaxFrame
    /\ agent_epsilon' = UpdateEpsilon(agent_schedule, global_step)
    /\ pc' = "advance"
    /\ UNCHANGED <<sync_rate, global_step, net, target_net, buffer, dataset,
                   env_steps, agent_schedule, yielded, episode_reward,
                   episode_steps, total_reward, reward_list, avg_reward,
                   episode_count, total_episode_steps, loss_calls, trace, last,
                   result>>

\* The trainer counts the step, after the call that updated epsilon.
AdvanceStep ==
    /\ pc = "advance"
    /\ global_step' = global_step + 1
    /\ pc' = "schedule"
    /\ UNCHANGED <<sync_rate, net, target_net, buffer, dataset, env_steps,
                   agent_schedule, agent_epsilon, yielded, episode_reward,
                   episode_steps, total_reward, reward_list, avg_reward,
                   episode_count, total_episode_steps, loss_calls, trace, last,
                   result>>

NextSchedule == UpdateEpsilonStep \/ AdvanceStep

SpecSchedule == InitSchedule /\ [][NextSchedule]_vars

(***************************************************************************)
(* The sampler on its own: a dataset over any store of SampleStores yields *)
(* minibatches with the exact importance weights.                          *)
(***************************************************************************)
\* The dataset's batch size is drawn from 1 .. MaxBatch.
MaxBatch == 2

PriorityValues == {Rat(1, 2), FOne, FInt(3)}

\* Stores of 1 .. replay_size transitions with positive priorities.
SampleStores ==
    { [capacity |-> replay_size,
       slots |-> [i \in 1..Len(p) |->
                     [transition |-> Experience(i - 1, [action |-> 0, reward |-> FInt(1),
                                                        done |-> FALSE]),
                      priority |-> p[i]]],
       pos |-> Len(p) % replay_size,
       n_append |-> Len(p),
       n_update |-> 0] :
         p \in UNION { [1..n -> PriorityValues] : n \in 1..replay_size } }

InitSampler ==
    /\ pc = "sample"
    /\ sync_rate = 1
    /\ global_step = 0
    /\ net = ThetaA
    /\ target_net = ThetaB
    /\ buffer \in SampleStores
    /\ \E n \in 1..MaxBatch : dataset = NewDataset(buffer, n)
    /\ env_steps = Len(buffer.slots)
    /\ agent_schedule = AgentSchedule
    /\ agent_epsilon = eps_start
    /\ yielded = NoBatch
    /\ episode_reward = FZero
    /\ episode_steps = 0
    /\ total_reward = FZero
    /\ reward_list = <<>>
    /\ avg_reward = FZero
    /\ episode_count = 0
    /\ total_episode_steps = 0
    /\ loss_calls = 0
    /\ trace = <<>>
    /\ last = NoCall
    /\ result = NoResult

\* The dataset yields the next minibatch: buffer.sample(batch_size).
DatasetNext ==
    /\ pc = "sample"
    /\ CanSample(buffer)
    /\ \E indices \in SampleIndices(buffer, dataset.batch_size) :
          yielded' = Sample(buffer, indices)
    /\ UNCHANGED <<pc, sync_rate, global_step, net, target_net, buffer, dataset,
                   env_steps, agent_schedule, agent_epsilon, episode_reward,
                   episode_steps, total_reward, reward_list, avg_reward,
                   episode_count, total_episode_steps, loss_calls, trace, last,
                   result>>

NextSampler == DatasetNext

SpecSampler == InitSampler /\ [][NextSampler]_vars


(***************************************************************************)
(* Properties                                                              *)
(***************************************************************************)
\* Training steps taken so far.
StepsTaken == global_step + (IF pc = "optimize" THEN 1 ELSE 0)

\* The slot the last append wrote.
LastSlot(buf) == ((buf.pos + buf.capacity - 1) % buf.capacity) + 1

\* The training steps that ended an episode.
DoneSteps == {i \in 1..Len(trace) : trace[i].done}

TraceRewards(from, to) == [i \in 1..(to - from + 1) |-> trace[from + i - 1].reward]

\* C1: every training_step advances the environment by one transition and
\* appends exactly that transition to the replay buffer, whatever the
\* minibatch, the done flag and the global step are: after n training steps
\* the source has stepped, and the buffer has been appended to, n times on
\* top of the warm-up.
C1_OneAppendPerStep ==
    pc # "prepare" =>
        /\ env_steps = warm_start_size + StepsTaken
        /\ buffer.n_append = warm_start_size + StepsTaken
        /\ StepsTaken = Len(trace)
        /\ pc = "optimize" =>
              /\ last.exp.state = env_steps - 1
              /\ last.exp.done = last.done /\ last.exp.reward = last.reward
              /\ buffer.slots[LastSlot(buffer)].transition = last.exp

\* A step whose transition ends an episode, after another step.
C1_Witness ==
    /\ pc = "optimize" /\ global_step >= 1 /\ last.done
    /\ buffer.n_append = warm_start_size + global_step + 1

\* C2: the current-episode accumulators are reset exactly when the step's
\* transition has done = true: after such a step episode_reward = 0 and
\* episode_steps = 0; after a step whose transition is not done they are
\* the previous values plus the step's reward and plus 1.
C2_ResetExactlyOnDone ==
    pc = "optimize" =>
        IF last.done
        THEN episode_reward = FZero /\ episode_steps = 0
        ELSE /\ episode_reward = FAdd(last.before.episode_reward, last.reward)
             /\ episode_steps = last.before.episode_steps + 1

\* The step that ends an episode of several steps.
C2_Witness ==
    /\ pc = "optimize" /\ last.done
    /\ last.before.episode_steps >= 1
    /\ last.before.episode_reward # FZero

\* C3: from zeroed counters and an empty history, when done has been true
\* exactly once, with accumulated episode reward R, total_reward = R,
\* episode_count = 1 and avg_reward = R / 100; after k completed episodes
\* avg_reward is the sum of the last min(k, 100) episode totals divided by
\* the constant 100.
C3_TrailingAverage ==
    /\ episode_count = Len(reward_list)
    /\ episode_count >= 1 =>
          LET k == episode_count
              m == IF k < 100 THEN k ELSE 100
          IN  avg_reward = FDiv(FSum(SubSeq(reward_list, k - m + 1, k)), FInt(100))
    /\ Cardinality(DoneSteps) = 1 =>
          LET e == CHOOSE i \in DoneSteps : TRUE
              R == FSum(TraceRewards(1, e))
          IN  /\ total_reward = R
              /\ episode_count = 1
              /\ avg_reward = FDiv(R, FInt(100))

\* More episodes than the window holds, the first of them of two steps.
C3_Witness ==
    /\ episode_count > AvgWindow
    /\ reward_list[1] = FInt(3)
    /\ reward_list[1] # reward_list[episode_count]

\* C4: episode_count is the number of steps whose transition had
\* done = true, the reward history holds one entry per such step, the
\* finished episode's total reward, in completion order, and a step never
\* shortens the history or lowers the count.
C4_HistoryOnlyGrows ==
    /\ episode_count = Cardinality(DoneSteps)
    /\ Len(reward_list) = Cardinality(DoneSteps)
    /\ \A e \in DoneSteps :
          LET earlier == {j \in DoneSteps : j < e}
              from == IF earlier = {} THEN 1
                      ELSE 1 + (CHOOSE j \in earlier : \A x \in earlier : x <= j)
          IN  reward_list[Cardinality(earlier) + 1] = FSum(TraceRewards(from, e))
    /\ pc = "optimize" =>
          /\ episode_count = last.before.episode_count + (IF last.done THEN 1 ELSE 0)
          /\ SubSeq(reward_list, 1, Len(last.before.reward_list)) = last.before.reward_list

\* Two finished episodes with different totals.
C4_Witness ==
    /\ episode_count = 2
    /\ reward_list[1] # reward_list[2]
    /\ pc = "optimize" /\ last.done

\* C5: a training_step whose global step is a multiple of sync_rate ends
\* with the target parameters equal to the online network's current
\* parameters; any other training_step leaves the target parameters as
\* they were.
C5_HardSyncOnMultiples ==
    pc = "optimize" =>
        IF last.global_step % sync_rate = 0
        THEN target_net = net
        ELSE target_net = last.target_used

\* A step that is no multiple of sync_rate, with the online network moved
\* away from the target.
C5_Witness ==
    /\ pc = "optimize"
    /\ last.global_step % sync_rate # 0
    /\ target_net # net
    /\ net = ThetaDiv

\* C6: a non-finite per-sample loss is never passed to
\* buffer.update_priorities, so no buffer slot ever holds a non-finite
\* priority.
C6_NoNonFinitePriority ==
    /\ pc = "optimize" => \A i \in 1..Len(last.priorities) : IsFinite(last.priorities[i])
    /\ \A i \in 1..Len(buffer.slots) : IsFinite(buffer.slots[i].priority)

\* C7: when the input importance weights are non-negative and finite,
\* every priority passed to buffer.update_priorities is at least the floor
\* 1e-5, and every occupied buffer slot has a priority > 0.
C7_PrioritiesPositive ==
    /\ (/\ pc = "optimize"
        /\ \A i \in 1..Len(last.weights) :
              IsFinite(last.weights[i]) /\ FLe(FZero, last.weights[i]))
       => \A i \in 1..Len(last.priorities) :
              FGt(last.priorities[i], FZero) /\ FLe(Rat(1, 100000), last.priorities[i])
    /\ \A i \in 1..Len(buffer.slots) : FGt(buffer.slots[i].priority, FZero)

\* C8: in loss, q_target = reward for every row of the minibatch whose done
\* flag is true, whatever gamma and the target network's output are, and
\* q_target = reward + gamma * max_a target(next_state) for every other row.
C8_TerminalRowsMasked ==
    pc = "optimize" =>
        \A i \in 1..Len(last.samples) :
            LET t == last.samples[i]
                q == forward(last.target_used, t.next_state)
            IN  last.q_target[i] =
                    IF t.done THEN t.reward
                    ELSE FAdd(t.reward, FMul(gamma, FMax(q[0], q[1])))

\* A terminal row whose next state the target network maps to NaN.
C8_Witness ==
    /\ pc = "optimize"
    /\ \E i \in 1..Len(last.samples) :
          /\ last.samples[i].done
          /\ IsNaN(MaxNextVal(last.target_used, last.samples[i]))
          /\ last.q_target[i] = FInt(2)

\* C9: the store never holds more than replay_size entries; it holds the
\* most recently inserted ones, the n-th inserted transition (n from 0) in
\* slot n % replay_size: once the store is full an insert evicts the oldest
\* entry and takes its slot.
C9_FifoEviction ==
    /\ Len(buffer.slots) <= replay_size
    /\ pc # "prepare" =>
          /\ buffer.n_append = env_steps
          /\ Len(buffer.slots) = (IF env_steps < replay_size THEN env_steps ELSE replay_size)
          /\ \A i \in 1..Len(buffer.slots) :
                LET n == buffer.slots[i].transition.state
                IN  /\ env_steps - Len(buffer.slots) <= n /\ n < env_steps
                    /\ n % replay_size = i - 1

\* T1 .. T4 inserted into a store of capacity 3: T4 is in T1's slot.
C9_Witness ==
    /\ replay_size = 3 /\ env_steps = 4
    /\ buffer.slots[1].transition.state = 3
    /\ buffer.slots[2].transition.state = 1
    /\ buffer.slots[3].transition.state = 2

\* C10: prepare_data inserts warm_start_size transitions into the fresh
\* buffer before the dataset is built and before the first training_step;
\* the warm-up computes no loss and writes no priority back; once the
\* orchestrator is stepping it never returns to the warm-up.
C10_WarmupBeforeStepping ==
    /\ [](pc = "prepare" =>
             buffer = NoBuffer /\ ~dataset.built /\ loss_calls = 0 /\ env_steps = 0)
    /\ [](pc # "prepare" =>
             /\ dataset.built
             /\ dataset.built_on = warm_start_size
             /\ dataset.batch_size = batch_size
             /\ buffer.n_append >= warm_start_size)
    /\ []((pc = "step" /\ global_step = 0) =>
             /\ loss_calls = 0
             /\ buffer.n_update = 0
             /\ buffer.n_append = warm_start_size
             /\ \A i \in 1..Len(buffer.slots) : buffer.slots[i].priority = FOne)
    /\ [][pc # "prepare" => pc' # "prepare"]_vars

\* The warm-up is over and no training step has run.
C10_Witness ==
    /\ pc = "step" /\ global_step = 0
    /\ Len(buffer.slots) = warm_start_size
    /\ dataset.built

\* The step count of the last completed episode: the number of training
\* steps from the one after the previous episode's end up to the last step
\* that ended an episode; 0 while no episode has been completed.
LastCompletedEpisodeSteps ==
    IF DoneSteps = {} THEN 0
    ELSE LET e == CHOOSE i \in DoneSteps : \A x \in DoneSteps : x <= i
             earlier == DoneSteps \ {e}
         IN  IF earlier = {} THEN e
             ELSE e - (CHOOSE j \in earlier : \A x \in earlier : x <= j)

\* C11: in the result record of every training_step the "episode_steps"
\* entry of log and the "episode_steps" entry of progress_bar are both the
\* step count of the last completed episode, on the step that completes an
\* episode and on steps in the middle of a later episode alike.
C11_EpisodeStepsOfLastEpisode ==
    pc = "optimize" =>
        /\ result.log.episode_steps = LastCompletedEpisodeSteps
        /\ result.progress_bar.episode_steps = LastCompletedEpisodeSteps

\* C12: epsilon(step) = max(eps_end, eps_start - step * (eps_start -
\* eps_end) / eps_last_frame), for eps_start >= eps_end and
\* eps_last_frame > 0, is eps_start at step 0, eps_end at step
\* eps_last_frame and at every later step, and is non-increasing in step:
\* updated with increasing steps, the exploration probability never rises
\* and never drops below eps_end.
C12_ScheduleDecaysToFloor ==
    /\ [](pc = "advance" =>
             /\ global_step = 0 => agent_epsilon = agent_schedule.eps_start
             /\ global_step >= agent_schedule.eps_last_frame =>
                   agent_epsilon = agent_schedule.eps_end)
    /\ [](/\ FLe(agent_schedule.eps_end, agent_epsilon)
          /\ FLe(agent_epsilon, agent_schedule.eps_start))
    /\ [][FLe(agent_epsilon', agent_epsilon)]_vars

\* A schedule that really decays, updated with a step beyond eps_last_frame.
C12_Witness ==
    /\ pc = "advance"
    /\ global_step > agent_schedule.eps_last_frame
    /\ agent_schedule.eps_last_frame > 1
    /\ FLt(agent_schedule.eps_end, agent_schedule.eps_start)
    /\ agent_epsilon = agent_schedule.eps_end

\* C13: in every minibatch the sampler yields from a store whose
\* priorities are all > 0, every importance weight is <= 1, at least one
\* weight is exactly 1, and indices, weights and transitions all have
\* length batch_size.
C13_WeightsNormalised ==
    (pc = "sample" /\ yielded # NoBatch) =>
        /\ Len(yielded.indices) = dataset.batch_size
        /\ Len(yielded.weights) = dataset.batch_size
        /\ Len(yielded.samples) = dataset.batch_size
        /\ \A i \in 1..Len(yielded.weights) : FLe(yielded.weights[i], FOne)
        /\ \E i \in 1..Len(yielded.weights) : yielded.weights[i] = FOne

\* A minibatch of two slots with different priorities: one weight below 1.
C13_Witness ==
    /\ pc = "sample"
    /\ Len(yielded.indices) = 2
    /\ buffer.slots[yielded.indices[1] + 1].priority
          # buffer.slots[yielded.indices[2] + 1].priority
    /\ \E i \in 1..2 : FLt(yielded.weights[i], FOne)

\* What self.loss returns in a training_step from the current state on the
\* minibatch batch, when the source's step returns out.
StepLossWith(batch, out) ==
    Loss(LossSamples(batch, StoreTransition(buffer, Experience(env_steps, out))),
         batch.weights, net, target_net)

\* C14: the loss and the priorities of a training_step depend only on the
\* input minibatch, its weights and the network parameters, not on the
\* transition the step appends: a run of training_step from the same state
\* with the same minibatch and any other transition from the environment
\* computes the same loss and passes the same (indices, priorities) to
\* buffer.update_priorities.
C14_LossIndependentOfAppend ==
    [][(pc = "step" /\ pc' = "optimize") =>
          \A out \in {o \in EnvOutcomes : Experience(env_steps, o) # last'.exp} :
              \E other \in {StepLossWith(yielded', out)} :
                  /\ other.loss = result'.loss
                  /\ other.priorities = last'.priorities
                  /\ last'.indices = yielded'.indices]_vars

\* A step on a full buffer whose append took a slot the minibatch names.
C14_Witness ==
    /\ pc = "optimize"
    /\ buffer.n_append > replay_size
    /\ \E i \in 1..Len(last.indices) :
          /\ last.indices[i] = LastSlot(buffer) - 1
          /\ last.samples[i] # last.exp
          /\ last.samples[i].reward # last.exp.reward

\* weights[i] * (q_pred[i] - q_target[i]) ^ 2 of the last training step.
WeightedSquaredError(i) ==
    LET d == FSub(last.q_pred[i], last.q_target[i])
    IN  FMul(last.weights[i], FMul(d, d))

\* C15: in every training_step the value passed to
\* buffer.update_priorities for indices[i] is
\* weights[i] * (q_pred[i] - q_target[i])^2 + 1e-5 for each position i of
\* the minibatch, the returned loss is the mean over the batch of
\* weights[i] * (q_pred[i] - q_target[i])^2, and exactly one
\* update_priorities call is made per step, with as many indices as
\* priorities, the batch size.
C15_WriteBackAligned ==
    /\ pc # "prepare" => buffer.n_update = StepsTaken
    /\ pc = "optimize" =>
          /\ Len(last.indices) = batch_size
          /\ Len(last.priorities) = batch_size
          /\ last.indices = yielded.indices
          /\ \A i \in 1..batch_size :
                last.priorities[i] = FAdd(WeightedSquaredError(i), Rat(1, 100000))
          /\ result.loss =
                FDiv(FSum([i \in 1..batch_size |-> WeightedSquaredError(i)]),
                     FInt(batch_size))
          /\ \A i \in 1..batch_size :
                (\A j \in (i + 1)..batch_size : last.indices[j] # last.indices[i]) =>
                    buffer.slots[last.indices[i] + 1].priority =
                        FAdd(FAdd(WeightedSquaredError(i), Rat(1, 100000)), epsilon_floor)

\* Two rows from different slots, with different weights and different
\* finite priorities.
C15_Witness ==
    /\ pc = "optimize"
    /\ last.indices[1] # last.indices[2]
    /\ last.weights[1] # last.weights[2]
    /\ IsFinite(last.priorities[1]) /\ IsFinite(last.priorities[2])
    /\ last.priorities[1] # last.priorities[2]
    /\ FGt(last.priorities[1], Rat(1, 100000))

\* C16: in every training_step the exploration probability is updated from
\* the current global step before the environment is stepped: the step's
\* one transition is chosen with epsilon(global_step) of that same step,
\* and the "epsilon" entry of the returned progress_bar is
\* epsilon(global_step) of that step.
C16_EpsilonOfCurrentStep ==
    pc = "optimize" =>
        /\ last.global_step = global_step
        /\ last.epsilon_used = Epsilon(global_step)
        /\ agent_epsilon = Epsilon(global_step)
        /\ result.progress_bar.epsilon = Epsilon(global_step)
        /\ result.progress_bar.steps = global_step

\* The second step: epsilon has left eps_start and not reached eps_end.
C16_Witness ==
    /\ pc = "optimize"
    /\ global_step = 1
    /\ last.epsilon_used = Rat(51, 100)
    /\ result.progress_bar.epsilon = Rat(51, 100)

\* C17: when a training_step calls buffer.update_priorities(indices,
\* priorities), every slot named in indices still holds the transition
\* that was sampled into the input minibatch: the step's own append never
\* overwrites a slot listed in indices, also when the buffer is full, so a
\* freshly inserted transition never receives a priority computed from the
\* loss of an evicted one.
C17_IndicesStillValid ==
    pc = "optimize" =>
        \A i \in 1..Len(last.indices) :
            /\ buffer.slots[last.indices[i] + 1].transition = last.samples[i]
            /\ buffer.slots[last.indices[i] + 1].transition # last.exp

\* C18: a training_step whose transition has done = false leaves the
\* completed-episode state unchanged: total_reward, avg_reward, the reward
\* history, episode_count and total_episode_steps are after the step what
\* they were before it.
C18_NotDoneKeepsTotals ==
    (pc = "optimize" /\ ~last.done) =>
        /\ total_reward = last.before.total_reward
        /\ avg_reward = last.before.avg_reward
        /\ reward_list = last.before.reward_list
        /\ episode_count = last.before.episode_count
        /\ total_episode_steps = last.before.total_episode_steps

\* A step in the middle of the second episode.
C18_Witness ==
    /\ pc = "optimize" /\ ~last.done
    /\ last.before.episode_count = 1
    /\ FGt(total_reward, FZero)
    /\ total_episode_steps >= 1
    /\ episode_steps >= 1

\* The training step that ended the episode before the one the last done
\* step ended; 0 when there is none.
PreviousDoneStep ==
    LET e == CHOOSE i \in DoneSteps : \A x \in DoneSteps : x <= i
        earlier == DoneSteps \ {e}
    IN  IF earlier = {} THEN 0 ELSE CHOOSE j \in earlier : \A x \in earlier : x <= j

\* C19: on every training_step whose transition has done = true,
\* total_episode_steps is the number of training steps since the previous
\* done step, the done step itself counted (so it is >= 1), and
\* total_reward is the sum of the rewards of exactly those steps: rewards
\* and steps of one episode are never carried into the next.
C19_TotalsOfFinishedEpisode ==
    (pc = "optimize" /\ last.done) =>
        /\ Len(trace) \in DoneSteps
        /\ total_episode_steps = Len(trace) - PreviousDoneStep
        /\ total_episode_steps >= 1
        /\ total_reward = FSum(TraceRewards(PreviousDoneStep + 1, Len(trace)))
        /\ result.log.total_reward = total_reward
        /\ result.log.episode_steps = total_episode_steps

\* The end of a second episode of two steps, after a first of one step.
C19_Witness ==
    /\ pc = "optimize" /\ last.done
    /\ episode_count = 2
    /\ total_episode_steps = 2
    /\ total_reward = FInt(3)
    /\ reward_list[1] = FInt(2)

\* C20: within one training_step the loss and the priorities are computed
\* before the target network is synchronised: on a step whose global step
\* is a multiple of sync_rate, global step 0 included, the q_target values
\* use the target parameters as they were before the step, and the freshly
\* copied parameters are first used by the loss of the next step.
C20_LossBeforeSync ==
    /\ [](pc = "optimize" =>
             /\ last.target_used = last.target_before
             /\ \A i \in 1..Len(last.samples) :
                   last.q_target[i] = ExpectedVal(last.target_before, last.samples[i])
             /\ last.priorities =
                   [i \in 1..Len(last.samples) |->
                       FAdd(WeightedSquaredError(i), Rat(1, 100000))])
    /\ [][(pc = "step" /\ pc' = "optimize") =>
             /\ last'.target_used = target_net
             /\ (global_step % sync_rate = 0) => target_net' = net]_vars
    /\ [][(pc = "optimize" /\ pc' = "step") => target_net' = target_net]_vars

\* The step after a synchronising step computes its loss with the copy
\* made then, and synchronises again to parameters that differ from it.
C20_Witness ==
    /\ pc = "optimize"
    /\ global_step = 1
    /\ last.global_step % sync_rate = 0
    /\ last.target_used = ThetaA
    /\ net = ThetaDiv
    /\ target_net = ThetaDiv

=============================================================================
